---- MODULE Spec2Model ----
(***************************************************************************)
(* Model of asphalt.serialization.object_codec.DefaultCustomTypeCodec:     *)
(* the tag codec that wraps the marshalled state of registered custom      *)
(* types into a two-key dict on encoding and recognises such dicts on      *)
(* decoding.                                                               *)
(*                                                                         *)
(* Python values are modelled as records [k, s, v]: k is the kind, s the   *)
(* text of a scalar (or the class name of an instance), v the items of a   *)
(* container (a sequence, or a function from keys to values).              *)
(***************************************************************************)
EXTENDS Integers, Sequences, FiniteSets, TLC

VARIABLES
    type_key,    \* self.type_key, fixed by __init__
    state_key,   \* self.state_key, fixed by __init__
    serializer,  \* self.serializer, attached after construction
    pc,          \* "idle": no call in progress; "done": a call has just ended
    last         \* the call that has just ended: its input, outcome and calls

vars == <<type_key, state_key, serializer, pc, last>>

----------------------------------------------------------------------------
(* Bounds of the model *)

\* largest number of entries of a dict handed to the decoder or to unwrap
MaxEntries == 2

----------------------------------------------------------------------------
(* Python values *)

None == [k |-> "null", s |-> "None", v |-> <<>>]
Bool(b) == [k |-> "bool", s |-> b, v |-> <<>>]
Num(n) == [k |-> "num", s |-> n, v |-> <<>>]
Str(a) == [k |-> "str", s |-> a, v |-> <<>>]
List(items) == [k |-> "seq", s |-> "", v |-> items]
Tuple2(a, b) == [k |-> "tuple", s |-> "", v |-> <<a, b>>]
Dict(f) == [k |-> "dict", s |-> "", v |-> f]
Obj(cls, attrs) == [k |-> "obj", s |-> cls, v |-> attrs]

\* what a call does: it returns a value, or raises an exception with a message
Return(x) == [kind |-> "return", val |-> x, exc |-> "", msg |-> ""]
Raise(e, m) == [kind |-> "raise", val |-> None, exc |-> e, msg |-> m]

\* one entry of the log of the calls a method makes
Call(f, a) == [fn |-> f, args |-> a]

\* dict.get(key): the value at key, None when the key is absent
Get(d, key) == IF key \in DOMAIN d.v THEN d.v[key] ELSE None

\* whether len(x) is defined: str, list and dict have a length, the
\* scalars None, bool and number raise TypeError
HasLen(x) == x.k \in {"str", "seq", "dict"}

\* len(x) where it is defined
PyLen(x) ==
    CASE x.k = "str" -> Len(x.s)
      [] x.k = "seq" -> Len(x.v)
      [] x.k = "dict" -> Cardinality(DOMAIN x.v)

\* whether x may be used as a dict key: lists and dicts are unhashable
Hashable(x) == x.k \notin {"seq", "dict"}

\* str(x) of a scalar, as an f-string formats it
Format(x) == x.s

----------------------------------------------------------------------------
(* Classes and instances of the application *)

NoFactory == "None"
Classes == {"Point", "Cell", "complex"}
ModuleOf(cls) == IF cls = "complex" THEN "builtins" ELSE "geom"

\* qualified_name as a bug would have it: the class name without its module
qualified_name_bare(cls) == cls

\* asphalt.core.qualified_name applied to a class
qualified_name(cls) ==
    IF ModuleOf(cls) = "builtins" THEN cls ELSE ModuleOf(cls) \o "." \o cls

\* cls.__new__(cls): an instance whose initializer has not run
New(cls) == Obj(cls, <<>>)

PointState == Dict([a \in {"x", "y"} |-> IF a = "x" THEN Num("1") ELSE Num("2")])
TaggedState == Dict([a \in {"__type__", "state"} |->
                        IF a = "__type__" THEN Str("Cell") ELSE None])

Instances ==
    {Obj("Point", PointState.v), Obj("complex", PointState.v)}
    \cup {Obj("Cell", [a \in {"val"} |-> x]) :
            x \in {None, Num("1"), Str("ab"), PointState, TaggedState}}

----------------------------------------------------------------------------
(* The marshalling functions the application registers.  They are user     *)
(* code the codec only calls: a small set of them stands for it.           *)

\* marshaller(obj): the state of an instance
CallMarshaller(fn, obj) ==
    CASE fn = "marshal_point" ->
            Return(Dict([a \in {"x", "y"} |-> obj.v[a]]))
      [] fn = "marshal_cell" -> Return(obj.v["val"])

\* unmarshaller(instance, state): fills the instance in place.  ret is what
\* the call does, instance the instance as the call leaves it.
UnmarshalInto(fn, instance, state) ==
    IF state.k # "dict"
    THEN [ret |-> Raise("TypeError", "state is not subscriptable"),
          instance |-> instance]
    ELSE IF ~({"x", "y"} \subseteq DOMAIN state.v)
    THEN [ret |-> Raise("KeyError", "x"), instance |-> instance]
    ELSE [ret |-> IF fn = "unmarshal_point_chatty"
                  THEN Return(Str("done")) ELSE Return(None),
          instance |-> Obj(instance.s, [a \in {"x", "y"} |-> state.v[a]])]

\* unmarshaller(state): builds the value itself
UnmarshalFrom(fn, state) ==
    CASE fn = "unmarshal_cell" -> Return(Obj("Cell", [a \in {"val"} |-> state]))
      [] fn = "unmarshal_blank" -> Return(Obj("Cell", [a \in {"val"} |-> None]))

MarshalEntry(t, m, w) == [typename |-> t, marshaller |-> m, wrap_state |-> w]
UnmarshalEntry(c, u) == [cls |-> c, unmarshaller |-> u]

\* serializer.marshallers of a serializer whose types are (or are not) wrapped
Marshallers(wrapped) ==
    [c \in {"Point", "Cell"} |->
        IF c = "Point" THEN MarshalEntry("Point", "marshal_point", wrapped)
        ELSE MarshalEntry("Cell", "marshal_cell", wrapped)]

\* serializer.unmarshallers, with the given unmarshallers of Point and Cell
Unmarshallers(up, uc) ==
    [t \in {"Point", "Cell"} |->
        IF t = "Point" THEN UnmarshalEntry("Point", up)
        ELSE UnmarshalEntry(NoFactory, uc)]

\* the codec before a serializer is attached: self.serializer is not set
NoSerializer == [bound |-> FALSE, marshallers |-> <<>>, unmarshallers |-> <<>>]

Serializer(m, u) == [bound |-> TRUE, marshallers |-> m, unmarshallers |-> u]

\* the serializers a codec may be attached to
Serializers ==
    { Serializer(Marshallers(TRUE), Unmarshallers("unmarshal_point", "unmarshal_cell")),
      Serializer(Marshallers(FALSE), Unmarshallers("unmarshal_point", "unmarshal_cell")),
      Serializer(Marshallers(TRUE), Unmarshallers("unmarshal_point_chatty", "unmarshal_blank")),
      Serializer([c \in {"Point"} |-> MarshalEntry("Point", "marshal_point", TRUE)],
                 [t \in {"Cell"} |-> UnmarshalEntry(NoFactory, "unmarshal_cell")]),
      Serializer(<<>>, <<>>) }

----------------------------------------------------------------------------
(* DefaultCustomTypeCodec.  self is [type_key, state_key, serializer].     *)

\* wrap_state_dict as a bug would have it: the two values under the wrong keys
wrap_state_dict_swapped(self, typename, state) ==
    Dict([key \in {self.type_key, self.state_key} |->
            IF key = self.state_key THEN typename ELSE state])

\* wrap_state_dict: a dict display; a repeated key keeps the later value
wrap_state_dict(self, typename, state) ==
    Dict([key \in {self.type_key, self.state_key} |->
            IF key = self.state_key THEN state ELSE typename])

\* unwrap_state_dict as a bug would have it.  "no_len": the length is not
\* checked; "no_none_check": a missing type name is not checked;
\* "default_keys": the default keys are read, not the options.
unwrap_variant(self, obj, variant) ==
    IF ~HasLen(obj)
    THEN Raise("TypeError", "object has no len()")
    ELSE IF PyLen(obj) = 2 \/ variant = "no_len"
    THEN IF obj.k # "dict"
         THEN Raise("AttributeError", "object has no attribute 'get'")
         ELSE LET tk == IF variant = "default_keys" THEN "__type__" ELSE self.type_key
                  sk == IF variant = "default_keys" THEN "state" ELSE self.state_key
                  typename == Get(obj, tk)
                  state == Get(obj, sk)
              IN  IF variant = "no_none_check" \/ typename # None
                  THEN Return(Tuple2(typename, state))
                  ELSE Return(Tuple2(None, None))
    ELSE Return(Tuple2(None, None))

unwrap_state_dict_no_len(self, obj) == unwrap_variant(self, obj, "no_len")
unwrap_state_dict_no_none_check(self, obj) == unwrap_variant(self, obj, "no_none_check")
unwrap_state_dict_default_keys(self, obj) == unwrap_variant(self, obj, "default_keys")

\* unwrap_state_dict: (typename, state) of a wrapped state, else (None, None)
unwrap_state_dict(self, obj) ==
    IF ~HasLen(obj)
    THEN Raise("TypeError", "object has no len()")
    ELSE IF PyLen(obj) = 2
    THEN IF obj.k # "dict"
         THEN Raise("AttributeError", "object has no attribute 'get'")
         ELSE LET typename == Get(obj, self.type_key)
                  state == Get(obj, self.state_key)
              IN  IF typename # None
                  THEN Return(Tuple2(typename, state))
                  ELSE Return(Tuple2(None, None))
    ELSE Return(Tuple2(None, None))

\* self.wrap_callback and self.unwrap_callback as __init__ binds them
wrap_callback(self, typename, state) == wrap_state_dict(self, typename, state)
unwrap_callback(self, obj) == unwrap_state_dict(self, obj)

\* default_encoder, the try block: the entry of obj_type in
\* serializer.marshallers, or the exception raised instead
lookup_marshaller(self, obj_type) ==
    IF ~self.serializer.bound
    THEN [ret |-> Raise("AttributeError", "serializer"),
          entry |-> MarshalEntry("", "", FALSE)]
    ELSE IF obj_type \notin DOMAIN self.serializer.marshallers
    THEN [ret |-> Raise("LookupError",
                        "no marshaller found for type \""
                            \o qualified_name(obj_type) \o "\""),
          entry |-> MarshalEntry("", "", FALSE)]
    ELSE [ret |-> Return(None), entry |-> self.serializer.marshallers[obj_type]]

\* wrap_if_asked as a bug would have it: wrap_state is not read
wrap_if_asked_always(self, entry, state) ==
    [ret |-> Return(wrap_callback(self, Str(entry.typename), state)),
     calls |-> <<Call("wrap_callback", <<Str(entry.typename), state>>)>>]

\* default_encoder, the return statement: the state, wrapped if wrap_state
wrap_if_asked(self, entry, state) ==
    IF entry.wrap_state
    THEN [ret |-> Return(wrap_callback(self, Str(entry.typename), state)),
          calls |-> <<Call("wrap_callback", <<Str(entry.typename), state>>)>>]
    ELSE [ret |-> Return(state), calls |-> <<>>]

\* default_encoder: [ret, calls], the outcome and the calls made
default_encoder(self, obj) ==
    LET obj_type == obj.s
        found == lookup_marshaller(self, obj_type)
    IN
    IF found.ret.kind = "raise"
    THEN [ret |-> found.ret, calls |-> <<>>]
    ELSE
      LET m == CallMarshaller(found.entry.marshaller, obj)
          c1 == <<Call("marshaller", <<obj>>)>>
      IN  IF m.kind = "raise"
          THEN [ret |-> m, calls |-> c1]
          ELSE LET w == wrap_if_asked(self, found.entry, m.val)
               IN  [ret |-> w.ret, calls |-> c1 \o w.calls]

\* default_decoder, the try block: the entry of typename in
\* serializer.unmarshallers, or the exception raised instead.  A list or a
\* dict cannot be looked up in a dict: the subscription raises TypeError,
\* which the except clause does not catch.
lookup_unmarshaller(self, typename) ==
    IF ~self.serializer.bound
    THEN [ret |-> Raise("AttributeError", "serializer"),
          entry |-> UnmarshalEntry(NoFactory, "")]
    ELSE IF ~Hashable(typename)
    THEN [ret |-> Raise("TypeError", "unhashable type"),
          entry |-> UnmarshalEntry(NoFactory, "")]
    ELSE IF typename.k # "str"
              \/ typename.s \notin DOMAIN self.serializer.unmarshallers
    THEN [ret |-> Raise("LookupError",
                        "no unmarshaller found for type \""
                            \o Format(typename) \o "\""),
          entry |-> UnmarshalEntry(NoFactory, "")]
    ELSE [ret |-> Return(None),
          entry |-> self.serializer.unmarshallers[typename.s]]

\* unmarshal as a bug would have it: what the unmarshaller returns is
\* returned, also when it was given an instance to fill
unmarshal_returns_result(entry, marshalled_state) ==
    IF entry.cls # NoFactory
    THEN [ret |-> UnmarshalInto(entry.unmarshaller, New(entry.cls),
                                marshalled_state).ret,
          calls |-> <<Call("__new__", <<Str(entry.cls)>>),
                      Call("unmarshaller", <<New(entry.cls), marshalled_state>>)>>]
    ELSE [ret |-> UnmarshalFrom(entry.unmarshaller, marshalled_state),
          calls |-> <<Call("unmarshaller", <<marshalled_state>>)>>]

\* default_decoder, the final if statement: a new instance filled in place
\* when the entry has a class, else the value the unmarshaller builds
unmarshal(entry, marshalled_state) ==
    IF entry.cls # NoFactory
    THEN LET instance == New(entry.cls)
             r == UnmarshalInto(entry.unmarshaller, instance, marshalled_state)
             c == <<Call("__new__", <<Str(entry.cls)>>),
                    Call("unmarshaller", <<instance, marshalled_state>>)>>
         IN  IF r.ret.kind = "raise"
             THEN [ret |-> r.ret, calls |-> c]
             ELSE [ret |-> Return(r.instance), calls |-> c]
    ELSE [ret |-> UnmarshalFrom(entry.unmarshaller, marshalled_state),
          calls |-> <<Call("unmarshaller", <<marshalled_state>>)>>]

\* default_decoder: [ret, calls], the outcome and the calls made
default_decoder(self, obj) ==
    LET u == unwrap_callback(self, obj)
        c1 == <<Call("unwrap_callback", <<obj>>)>>
    IN
    IF u.kind = "raise"
    THEN [ret |-> u, calls |-> c1]
    ELSE
      LET typename == u.val.v[1]
          marshalled_state == u.val.v[2]
      IN
      IF typename = None
      THEN [ret |-> Return(obj), calls |-> c1]
      ELSE
        LET found == lookup_unmarshaller(self, typename) IN
        IF found.ret.kind = "raise"
        THEN [ret |-> found.ret, calls |-> c1]
        ELSE LET r == unmarshal(found.entry, marshalled_state)
             IN  [ret |-> r.ret, calls |-> c1 \o r.calls]

----------------------------------------------------------------------------
(* The inputs of the calls *)

\* the key names a codec may be constructed with
TypeKeys == {"__type__", "t"}
StateKeys == {"state", "s", "t"}

\* the values that are not dicts
Scalars ==
    { None, Bool("True"), Num("1"), Str(""), Str("ab"), Str("Point"),
      List(<<>>), List(<<None, Str("Point")>>),
      List(<<Num("1"), Num("1"), Num("1")>>) }

\* the keys and the values of the entries of the dicts
DictKeys == {"__type__", "state", "t", "s"}
SlotValues ==
    { None, Str("Point"), Str("Cell"), Str("Ghost"), Num("1"),
      List(<<Str("Point")>>), PointState }

\* the dicts of at most MaxEntries entries
Dicts ==
    { Dict(f) : f \in UNION { [K -> SlotValues] :
                    K \in {K \in SUBSET DictKeys : Cardinality(K) <= MaxEntries} } }

Primitives == Scalars \cup Dicts

----------------------------------------------------------------------------
(* The state machine: a codec is constructed, a serializer is attached to  *)
(* it, and its methods are called one at a time.                           *)

Self == [type_key |-> type_key, state_key |-> state_key, serializer |-> serializer]

Ended(op, arg, origin, r) ==
    [op |-> op, arg |-> arg, origin |-> origin, ret |-> r.ret, calls |-> r.calls]

NoCall == Ended("", None, None, [ret |-> Return(None), calls |-> <<>>])

\* __init__(type_key, state_key)
Init ==
    /\ type_key \in TypeKeys
    /\ state_key \in StateKeys
    /\ serializer = NoSerializer
    /\ pc = "idle"
    /\ last = NoCall

\* codec.serializer = s
Attach(s) ==
    /\ pc = "idle"
    /\ ~serializer.bound
    /\ serializer' = s
    /\ UNCHANGED <<type_key, state_key, pc, last>>

\* default_encoder(obj)
Encode(obj) ==
    /\ pc = "idle"
    /\ last' = Ended("default_encoder", obj, None, default_encoder(Self, obj))
    /\ pc' = "done"
    /\ UNCHANGED <<type_key, state_key, serializer>>

\* default_decoder(obj)
Decode(obj) ==
    /\ pc = "idle"
    /\ last' = Ended("default_decoder", obj, None, default_decoder(Self, obj))
    /\ pc' = "done"
    /\ UNCHANGED <<type_key, state_key, serializer>>

\* default_decoder(default_encoder(x)): the value the encoder has just
\* returned is handed to the decoder; origin keeps x
DecodeEncoded ==
    /\ pc = "done"
    /\ last.op = "default_encoder"
    /\ last.ret.kind = "return"
    /\ last' = Ended("default_decoder", last.ret.val, last.arg,
                     default_decoder(Self, last.ret.val))
    /\ UNCHANGED <<type_key, state_key, serializer, pc>>

\* wrap_state_dict(typename, state)
Wrap(typename, state) ==
    /\ pc = "idle"
    /\ last' = Ended("wrap_state_dict", Tuple2(typename, state), None,
                     [ret |-> Return(wrap_state_dict(Self, typename, state)),
                      calls |-> <<>>])
    /\ pc' = "done"
    /\ UNCHANGED <<type_key, state_key, serializer>>

\* unwrap_state_dict(obj)
Unwrap(obj) ==
    /\ pc = "idle"
    /\ last' = Ended("unwrap_state_dict", obj, None,
                     [ret |-> unwrap_state_dict(Self, obj), calls |-> <<>>])
    /\ pc' = "done"
    /\ UNCHANGED <<type_key, state_key, serializer>>

\* the caller takes the outcome of the call
Finish ==
    /\ pc = "done"
    /\ pc' = "idle"
    /\ last' = NoCall
    /\ UNCHANGED <<type_key, state_key, serializer>>

Next ==
    \/ \E s \in Serializers : Attach(s)
    \/ \E obj \in Instances : Encode(obj)
    \/ \E obj \in Primitives : Decode(obj)
    \/ DecodeEncoded
    \/ \E typename \in {Str("Point"), Str("Ghost")}, state \in SlotValues :
          Wrap(typename, state)
    \/ \E obj \in Primitives : Unwrap(obj)
    \/ Finish

Spec == Init /\ [][Next]_vars

----------------------------------------------------------------------------
(* What the claims speak of *)

\* a call of the method op has just ended
CallEnded(op) == pc = "done" /\ last.op = op

\* a two-entry dict with a non-null value at the type key
IsTagged(obj) ==
    /\ obj.k = "dict"
    /\ Cardinality(DOMAIN obj.v) = 2
    /\ type_key \in DOMAIN obj.v
    /\ obj.v[type_key] # None

\* the class has an entry in the marshal table
Registered(cls) == serializer.bound /\ cls \in DOMAIN serializer.marshallers

\* the tag is a type name with an entry in the unmarshal table
NameRegistered(tag) ==
    /\ serializer.bound
    /\ tag.k = "str"
    /\ tag.s \in DOMAIN serializer.unmarshallers

\* the unmarshaller registered under the class's type name inverts its
\* marshaller on every instance of the class
Inverse(cls) ==
    LET e == serializer.marshallers[cls] IN
    /\ e.typename \in DOMAIN serializer.unmarshallers
    /\ \A x \in Instances : x.s = cls =>
          LET st == CallMarshaller(e.marshaller, x).val
              ue == serializer.unmarshallers[e.typename]
          IN  IF ue.cls # NoFactory
              THEN LET r == UnmarshalInto(ue.unmarshaller, Obj(ue.cls, <<>>), st)
                   IN  r.ret.kind = "return" /\ r.instance = x
              ELSE UnmarshalFrom(ue.unmarshaller, st) = Return(x)

\* an encoded instance has just been decoded
RoundTripEnded ==
    /\ CallEnded("default_decoder")
    /\ last.origin # None
    /\ Registered(last.origin.s)
    /\ Inverse(last.origin.s)

\* the fully qualified names of the classes
FullyQualified(cls) ==
    CASE cls = "Point" -> "geom.Point"
      [] cls = "Cell" -> "geom.Cell"
      [] cls = "complex" -> "complex"

\* the unmarshaller was called, and with which state
UnmarshallerCalled ==
    \E i \in DOMAIN last.calls : last.calls[i].fn = "unmarshaller"
UnmarshallerCalledWith(state) ==
    \E i \in DOMAIN last.calls :
        /\ last.calls[i].fn = "unmarshaller"
        /\ last.calls[i].args[Len(last.calls[i].args)] = state

----------------------------------------------------------------------------
(* C1 as stated: for every registered type whose unmarshaller inverts its  *)
(* marshaller and every instance x, default_decoder(default_encoder(x))    *)
(* returns a value equal to x.                                             *)
C1_Original == RoundTripEnded => last.ret = Return(last.origin)

(* C1 as amended: when moreover the type's marshal entry has wrap_state    *)
(* true, the round trip returns a value equal to x if the codec's type_key *)
(* and state_key differ; if they are equal, the wrapped composite has a    *)
(* single entry (see C3) and the decoder returns it unchanged.             *)
C1_RoundTrip ==
    ( /\ RoundTripEnded
      /\ serializer.marshallers[last.origin.s].wrap_state )
    => IF type_key # state_key
       THEN last.ret = Return(last.origin)
       ELSE last.ret = Return(last.arg)

C1_Witness ==
    /\ RoundTripEnded
    /\ last.origin.s = "Point"
    /\ serializer.marshallers["Point"].wrap_state
    /\ type_key = "t" /\ state_key = "s"
    /\ last.calls[1].args[1] = Dict([k \in {"t", "s"} |->
                                 IF k = "t" THEN Str("Point") ELSE PointState])
    /\ last.ret = Return(last.origin)

(* C2 as stated: default_decoder returns v itself, raising nothing, for    *)
(* every primitive v (null, boolean, number, string, sequence, composite)  *)
(* that is not a two-entry composite with a non-null tag.                  *)
C2_Original ==
    (CallEnded("default_decoder") /\ ~IsTagged(last.arg))
    => last.ret = Return(last.arg)

(* C2 as amended: default_decoder returns v itself, raising nothing, for   *)
(* every composite v that is not a two-entry composite with a non-null     *)
(* tag and for every string or sequence whose length is not two; for null, *)
(* a boolean or a number it raises TypeError, and for a string or sequence *)
(* of length two AttributeError.                                           *)
C2_PassThrough ==
    CallEnded("default_decoder") =>
        LET v == last.arg IN
        /\ (v.k = "dict" /\ ~IsTagged(v)) => last.ret = Return(v)
        /\ (v.k \in {"str", "seq"} /\ PyLen(v) # 2) => last.ret = Return(v)
        /\ v.k \in {"null", "bool", "num"} =>
              last.ret.kind = "raise" /\ last.ret.exc = "TypeError"
        /\ (v.k \in {"str", "seq"} /\ PyLen(v) = 2) =>
              last.ret.kind = "raise" /\ last.ret.exc = "AttributeError"

C2_Witness ==
    /\ CallEnded("default_decoder")
    /\ last.arg.k = "dict"
    /\ Cardinality(DOMAIN last.arg.v) = 2
    /\ type_key \in DOMAIN last.arg.v
    /\ state_key \in DOMAIN last.arg.v
    /\ last.arg.v[type_key] = None
    /\ last.arg.v[state_key] # None
    /\ last.ret = Return(last.arg)

(* C3 as stated: for any type_key and state_key, wrap_state_dict(t, s) is  *)
(* a composite of exactly two entries, type_key holding t and state_key    *)
(* holding s.                                                              *)
C3_Original ==
    CallEnded("wrap_state_dict") =>
        /\ last.ret.kind = "return"
        /\ last.ret.val.k = "dict"
        /\ Cardinality(DOMAIN last.ret.val.v) = 2
        /\ DOMAIN last.ret.val.v = {type_key, state_key}
        /\ last.ret.val.v[type_key] = last.arg.v[1]
        /\ last.ret.val.v[state_key] = last.arg.v[2]

(* C3, what the code does: the same for any type_key and state_key that    *)
(* differ; with equal keys the composite has the single entry holding s.   *)
C3_WrapShape ==
    CallEnded("wrap_state_dict") =>
        /\ last.ret.kind = "return"
        /\ last.ret.val.k = "dict"
        /\ DOMAIN last.ret.val.v = {type_key, state_key}
        /\ last.ret.val.v[state_key] = last.arg.v[2]
        /\ type_key # state_key =>
              /\ Cardinality(DOMAIN last.ret.val.v) = 2
              /\ last.ret.val.v[type_key] = last.arg.v[1]

C3_Witness ==
    /\ CallEnded("wrap_state_dict")
    /\ type_key = "t" /\ state_key = "s"
    /\ last.arg = Tuple2(Str("Ghost"), PointState)
    /\ DOMAIN last.ret.val.v = {"t", "s"}
    /\ last.ret.val.v["t"] = Str("Ghost")
    /\ last.ret.val.v["s"] = PointState

C5_UnknownType ==
    ( /\ CallEnded("default_encoder")
      /\ serializer.bound
      /\ last.arg.s \notin DOMAIN serializer.marshallers )
    => /\ last.ret = Raise("LookupError",
                           "no marshaller found for type \""
                               \o FullyQualified(last.arg.s) \o "\"")
       /\ last.calls = <<>>

C5_Witness ==
    /\ CallEnded("default_encoder")
    /\ "Point" \in DOMAIN serializer.marshallers
    /\ last.arg.s = "Cell"
    /\ last.ret.exc = "LookupError"
    /\ last.ret.msg = "no marshaller found for type \"geom.Cell\""

(* C6 as stated: default_decoder of a two-entry composite with a non-null   *)
(* tag that has no entry in the unmarshal table raises LookupError naming  *)
(* the tag; the composite is not passed through and no unmarshaller is     *)
(* called.                                                                 *)
C6_Original ==
    ( /\ CallEnded("default_decoder")
      /\ serializer.bound
      /\ IsTagged(last.arg)
      /\ ~NameRegistered(last.arg.v[type_key]) )
    => /\ last.ret = Raise("LookupError",
                           "no unmarshaller found for type \""
                               \o last.arg.v[type_key].s \o "\"")
       /\ ~UnmarshallerCalled

(* C6, what the code does: the same when the tag is hashable (a string, a  *)
(* number or a boolean); when the tag is a sequence or a composite the     *)
(* table lookup raises TypeError, which is not translated.                 *)
C6_UnknownTag ==
    ( /\ CallEnded("default_decoder")
      /\ serializer.bound
      /\ IsTagged(last.arg)
      /\ ~NameRegistered(last.arg.v[type_key]) )
    => /\ ~UnmarshallerCalled
       /\ IF last.arg.v[type_key].k \in {"str", "num", "bool"}
          THEN last.ret = Raise("LookupError",
                                "no unmarshaller found for type \""
                                    \o last.arg.v[type_key].s \o "\"")
          ELSE last.ret.kind = "raise" /\ last.ret.exc = "TypeError"

C6_Witness ==
    /\ CallEnded("default_decoder")
    /\ serializer.bound
    /\ "Point" \in DOMAIN serializer.unmarshallers
    /\ IsTagged(last.arg)
    /\ last.arg.v[type_key] = Str("Ghost")
    /\ state_key \in DOMAIN last.arg.v
    /\ last.ret = Raise("LookupError", "no unmarshaller found for type \"Ghost\"")

(* C7: a codec constructed with type_key "t" and state_key "s" encodes a   *)
(* wrapped type to a composite whose keys are exactly "t" and "s", and     *)
(* decodes a composite with the default keys "__type__" and "state" as     *)
(* ordinary data, returned unchanged, also when it names a registered type.*)
C7_CustomKeys ==
    (type_key = "t" /\ state_key = "s") =>
        /\ ( /\ CallEnded("default_encoder")
             /\ Registered(last.arg.s)
             /\ serializer.marshallers[last.arg.s].wrap_state )
           => /\ last.ret.kind = "return"
              /\ last.ret.val.k = "dict"
              /\ DOMAIN last.ret.val.v = {"t", "s"}
        /\ ( /\ CallEnded("default_decoder")
             /\ last.arg.k = "dict"
             /\ DOMAIN last.arg.v = {"__type__", "state"} )
           => last.ret = Return(last.arg)

C7_Witness ==
    /\ type_key = "t" /\ state_key = "s"
    /\ CallEnded("default_decoder")
    /\ last.arg.k = "dict"
    /\ DOMAIN last.arg.v = {"__type__", "state"}
    /\ NameRegistered(last.arg.v["__type__"])
    /\ last.arg.v["state"] = PointState
    /\ last.ret = Return(last.arg)

(* C8: default_encoder of an instance of a registered type calls the       *)
(* entry's marshaller exactly once, on the instance; with wrap_state false *)
(* it returns the state as it is and calls no wrap function, with          *)
(* wrap_state true it returns what the wrap function returns for           *)
(* (typename, state).                                                      *)
C8_Encode ==
    (CallEnded("default_encoder") /\ Registered(last.arg.s)) =>
        LET entry == serializer.marshallers[last.arg.s]
            state == CallMarshaller(entry.marshaller, last.arg).val
        IN  IF entry.wrap_state
            THEN /\ last.calls = <<Call("marshaller", <<last.arg>>),
                                   Call("wrap_callback",
                                        <<Str(entry.typename), state>>)>>
                 /\ last.ret = Return(wrap_callback(Self, Str(entry.typename), state))
            ELSE /\ last.calls = <<Call("marshaller", <<last.arg>>)>>
                 /\ last.ret = Return(state)

C8_Witness ==
    /\ CallEnded("default_encoder")
    /\ Registered(last.arg.s)
    /\ last.arg.s = "Point"
    /\ ~serializer.marshallers["Point"].wrap_state
    /\ last.calls = <<Call("marshaller", <<last.arg>>)>>
    /\ last.ret = Return(PointState)

(* C9: default_decoder of a two-entry composite whose non-null tag is a    *)
(* registered type name: when the entry has a class, it makes an instance  *)
(* without running an initializer, calls unmarshaller(instance, state) and *)
(* returns that instance whatever the unmarshaller returns; when the entry *)
(* has no class, it calls unmarshaller(state) and returns what that call   *)
(* returns.  An exception of the unmarshaller is raised unchanged.         *)
C9_Decode ==
    ( /\ CallEnded("default_decoder")
      /\ IsTagged(last.arg)
      /\ NameRegistered(last.arg.v[type_key]) )
    => LET entry == serializer.unmarshallers[last.arg.v[type_key].s]
           state == IF state_key \in DOMAIN last.arg.v
                    THEN last.arg.v[state_key] ELSE None
           blank == Obj(entry.cls, <<>>)
       IN  IF entry.cls # NoFactory
           THEN LET r == UnmarshalInto(entry.unmarshaller, blank, state) IN
                /\ last.calls = <<Call("unwrap_callback", <<last.arg>>),
                                  Call("__new__", <<Str(entry.cls)>>),
                                  Call("unmarshaller", <<blank, state>>)>>
                /\ last.ret = IF r.ret.kind = "raise"
                              THEN r.ret ELSE Return(r.instance)
           ELSE /\ last.calls = <<Call("unwrap_callback", <<last.arg>>),
                                  Call("unmarshaller", <<state>>)>>
                /\ last.ret = UnmarshalFrom(entry.unmarshaller, state)

C9_Witness ==
    /\ CallEnded("default_decoder")
    /\ IsTagged(last.arg)
    /\ last.arg.v[type_key] = Str("Point")
    /\ NameRegistered(Str("Point"))
    /\ serializer.unmarshallers["Point"].unmarshaller = "unmarshal_point_chatty"
    /\ last.calls[3] = Call("unmarshaller", <<Obj("Point", <<>>), PointState>>)
    /\ last.ret = Return(Obj("Point", PointState.v))

(* C10 as stated: a two-entry composite with a non-null tag and no entry   *)
(* at the state key is still taken as tagged: unwrap_state_dict returns    *)
(* (tag, None), and default_decoder does not pass the composite through:   *)
(* it calls the unmarshaller with a null state when the tag is registered  *)
(* and raises LookupError when it is not.                                  *)
C10_Original ==
    /\ ( /\ CallEnded("unwrap_state_dict")
         /\ IsTagged(last.arg)
         /\ state_key \notin DOMAIN last.arg.v )
       => last.ret = Return(Tuple2(last.arg.v[type_key], None))
    /\ ( /\ CallEnded("default_decoder")
         /\ serializer.bound
         /\ IsTagged(last.arg)
         /\ state_key \notin DOMAIN last.arg.v )
       => /\ last.ret # Return(last.arg)
          /\ IF NameRegistered(last.arg.v[type_key])
             THEN UnmarshallerCalledWith(None)
             ELSE last.ret.kind = "raise" /\ last.ret.exc = "LookupError"

(* C10, what the code does: the same, except that an unregistered tag      *)
(* raises LookupError only when it is hashable (a string, a number or a    *)
(* boolean); a tag that is a sequence or a composite raises TypeError.     *)
C10_MissingState ==
    /\ ( /\ CallEnded("unwrap_state_dict")
         /\ IsTagged(last.arg)
         /\ state_key \notin DOMAIN last.arg.v )
       => last.ret = Return(Tuple2(last.arg.v[type_key], None))
    /\ ( /\ CallEnded("default_decoder")
         /\ serializer.bound
         /\ IsTagged(last.arg)
         /\ state_key \notin DOMAIN last.arg.v )
       => /\ last.ret # Return(last.arg)
          /\ IF NameRegistered(last.arg.v[type_key])
             THEN UnmarshallerCalledWith(None)
             ELSE /\ last.ret.kind = "raise"
                  /\ last.ret.exc = IF last.arg.v[type_key].k \in {"str", "num", "bool"}
                                    THEN "LookupError" ELSE "TypeError"

C10_Witness ==
    /\ CallEnded("default_decoder")
    /\ IsTagged(last.arg)
    /\ state_key \notin DOMAIN last.arg.v
    /\ last.arg.v[type_key] = Str("Cell")
    /\ NameRegistered(Str("Cell"))
    /\ serializer.unmarshallers["Cell"].unmarshaller = "unmarshal_cell"
    /\ last.calls[2] = Call("unmarshaller", <<None>>)
    /\ last.ret = Return(Obj("Cell", [a \in {"val"} |-> None]))

====
